---- MODULE Spec2Model ----
(***************************************************************************)
(* Model of the t38c Tile38 client: the Response decoder (UnmarshalText,   *)
(* parse, parsefields), the Database facade (Connect, Close, Set, Get,     *)
(* Scan, Search, Del, PDel, Expire, Persist, TTL), runcmd and connectJSON. *)
(* The radix connection pool and the server are collaborators: the pool is *)
(* modelled by the calls the Database makes on it (NewPool with a          *)
(* connection function, Do, Close), the server by the replies it may send. *)
(***************************************************************************)
EXTENDS Integers, Sequences, FiniteSets, TLC

VARIABLES
  pool,      \* db.pool of the caller's Database: "nil", "open" or "closed"
  connect,   \* the Connect call: [pc, conn, ret]
  conns,     \* per connection: state, creator and what went over it
  callers,   \* per execution context: the call in progress and its result
  ncalls,    \* calls made so far
  dec        \* a Response value and the UnmarshalText calls made on it

(***************************************************************************)
(* JSON values as gjson.Result sees them.  type is the gjson type          *)
(* (String, Number, True, False, Null, JSON); str and num are the Str and  *)
(* Num members, raw the Raw text; shape tells an array from an object      *)
(* (the first byte of Raw); items are the children in document order, each *)
(* a record [k, v] with k the member name ("" inside an array).            *)
(* Numbers are kept in thousandths so that fractions stay integers.        *)
(***************************************************************************)
Milli == 1000

JString(s) ==
  [type |-> "String", str |-> s, num |-> 0, raw |-> "\"" \o s \o "\"",
   shape |-> "scalar", items |-> <<>>]

JNumber(text, n) ==
  [type |-> "Number", str |-> "", num |-> n, raw |-> text,
   shape |-> "scalar", items |-> <<>>]

JTrue ==
  [type |-> "True", str |-> "", num |-> 0, raw |-> "true",
   shape |-> "scalar", items |-> <<>>]

JFalse ==
  [type |-> "False", str |-> "", num |-> 0, raw |-> "false",
   shape |-> "scalar", items |-> <<>>]

JNull ==
  [type |-> "Null", str |-> "", num |-> 0, raw |-> "null",
   shape |-> "scalar", items |-> <<>>]

RECURSIVE JoinRaw(_, _)
JoinRaw(items, isObject) ==
  IF items = <<>> THEN ""
  ELSE LET h == Head(items)
           one == IF isObject THEN "\"" \o h.k \o "\":" \o h.v.raw ELSE h.v.raw
       IN IF Len(items) = 1 THEN one
          ELSE one \o "," \o JoinRaw(Tail(items), isObject)

ArrayItems(elems) == [i \in 1..Len(elems) |-> [k |-> "", v |-> elems[i]]]

JArray(elems) ==
  [type |-> "JSON", str |-> "", num |-> 0,
   raw |-> "[" \o JoinRaw(ArrayItems(elems), FALSE) \o "]",
   shape |-> "array", items |-> ArrayItems(elems)]

Member(k, v) == [k |-> k, v |-> v]

JObject(members) ==
  [type |-> "JSON", str |-> "", num |-> 0,
   raw |-> "{" \o JoinRaw(members, TRUE) \o "}",
   shape |-> "object", items |-> members]

\* The bytes of one reply: either not valid JSON, or one JSON value.
InvalidJSON(text) == [valid |-> FALSE, text |-> text, root |-> JNull]

ValidJSON(v) == [valid |-> TRUE, text |-> v.raw, root |-> v]

(***************************************************************************)
(* gjson accessors used by the decoder.                                    *)
(***************************************************************************)
\* A Bool that only knows numbers.
BoolNumberOnly(v) == v.type = "Number" /\ v.num # 0

\* gjson.Result.Bool: true for True, ParseBool of the lower-cased text for
\* a String, Num != 0 for a Number, false otherwise.
Bool(v) ==
  CASE v.type = "True" -> TRUE
    [] v.type = "String" -> v.str \in {"1", "t", "T", "true", "TRUE", "True"}
    [] v.type = "Number" -> v.num # 0
    [] OTHER -> FALSE

IsArray(v) == v.type = "JSON" /\ v.shape = "array"

IsObject(v) == v.type = "JSON" /\ v.shape = "object"

\* gjson.Result.ForEach: the children of an array or object, in document
\* order; a value of any other type is passed once, with an empty key.
ForEach(v) ==
  IF v.type = "JSON" THEN v.items ELSE << [k |-> "", v |-> v] >>

\* int64(v.Num): truncation toward zero.
Int64(n) == IF n >= 0 THEN n \div Milli ELSE -((-n) \div Milli)

\* time.Parse(time.RFC3339Nano, s) succeeds on these texts; the zero Time
\* is written ZeroTime.
ZeroTime == "0001-01-01T00:00:00Z"

RFC3339Times ==
  {"2018-08-27T19:07:23.578553343Z", "2018-08-27T19:07:33.671191005Z"}

\* A parse that keeps whatever text it is given.
ParseTimeAnyText(s) == s

ParseTime(s) == IF s \in RFC3339Times THEN s ELSE ZeroTime

(***************************************************************************)
(* Errors: the text Error() returns, and the sentinel errors reachable     *)
(* through Unwrap.                                                         *)
(***************************************************************************)
NilErr == [nil |-> TRUE, text |-> "", chain |-> {}]

MkErr(text, chain) == [nil |-> FALSE, text |-> text, chain |-> chain]

\* newError(w, m): message m wrapping w.
newError(w, m) ==
  IF w.nil THEN MkErr(m, {}) ELSE MkErr(m \o ": " \o w.text, w.chain)

errUninitialized == MkErr("database not initialized", {"errUninitialized"})

errResponse == MkErr("received error", {"errResponse"})

errArgs == MkErr("invalid arguments", {"errArgs"})

\* fmt.Errorf("%w: %s", errResponse, text)
WrapResponse(text) ==
  MkErr(errResponse.text \o ": " \o text, errResponse.chain)

(***************************************************************************)
(* Response and its decoder.                                               *)
(***************************************************************************)
\* new(Response)
ZeroResponse ==
  [ID |-> "", Object |-> "", IDs |-> <<>>, Objects |-> <<>>,
   FieldNames |-> <<>>, FieldValues |-> <<>>, Count |-> 0, Cursor |-> 0,
   TTL |-> 0, Err |-> "", Elapsed |-> "", Ok |-> FALSE, Live |-> FALSE,
   Command |-> "", Group |-> "", Detect |-> "", Key |-> "",
   Time |-> ZeroTime, fields |-> 0]

\* r.FieldNames[name] = idx
MapSet(m, name, idx) ==
  [x \in (DOMAIN m) \cup {name} |-> IF x = name THEN idx ELSE m[x]]

\* Each element put in front of the slice instead of appended.
RECURSIVE PrependStr(_, _)
PrependStr(seq, items) ==
  IF items = <<>> THEN seq
  ELSE PrependStr(<< Head(items).v.str >> \o seq, Tail(items))

RECURSIVE AppendStr(_, _)
AppendStr(seq, items) ==
  IF items = <<>> THEN seq
  ELSE AppendStr(Append(seq, Head(items).v.str), Tail(items))

RECURSIVE AppendRaw(_, _)
AppendRaw(seq, items) ==
  IF items = <<>> THEN seq
  ELSE AppendRaw(Append(seq, Head(items).v.raw), Tail(items))

\* The list form with r.fields++ left out: every name gets the same index.
RECURSIVE FieldsArrayNoIncr(_, _)
FieldsArrayNoIncr(r, items) ==
  IF items = <<>> THEN r
  ELSE FieldsArrayNoIncr(
         [r EXCEPT !.FieldNames = MapSet(r.FieldNames, Head(items).v.str, r.fields)],
         Tail(items))

RECURSIVE FieldsArray(_, _)
FieldsArray(r, items) ==
  IF items = <<>> THEN r
  ELSE FieldsArray(
         [r EXCEPT !.FieldNames = MapSet(r.FieldNames, Head(items).v.str, r.fields),
                   !.fields = r.fields + 1],
         Tail(items))

\* The object form with each value put in front of FieldValues instead of
\* appended.
RECURSIVE FieldsObjectPrepend(_, _)
FieldsObjectPrepend(r, items) ==
  IF items = <<>> THEN r
  ELSE FieldsObjectPrepend(
         [r EXCEPT !.FieldNames = MapSet(r.FieldNames, Head(items).k, r.fields),
                   !.fields = r.fields + 1,
                   !.FieldValues = << Head(items).v.num >> \o r.FieldValues],
         Tail(items))

RECURSIVE FieldsObject(_, _)
FieldsObject(r, items) ==
  IF items = <<>> THEN r
  ELSE FieldsObject(
         [r EXCEPT !.FieldNames = MapSet(r.FieldNames, Head(items).k, r.fields),
                   !.fields = r.fields + 1,
                   !.FieldValues = Append(r.FieldValues, Head(items).v.num)],
         Tail(items))

\* parsefields without its final panic.
parsefieldsNoPanic(r, v) ==
  LET r0 == [r EXCEPT !.FieldNames = <<>>]
  IN IF IsArray(v) THEN [r |-> FieldsArray(r0, ForEach(v)), panic |-> ""]
     ELSE IF IsObject(v) THEN [r |-> FieldsObject(r0, ForEach(v)), panic |-> ""]
     ELSE [r |-> r0, panic |-> ""]

\* parsefields: [r, panic]; panic is "" when the function returns.
parsefields(r, v) ==
  LET r0 == [r EXCEPT !.FieldNames = <<>>]
  IN IF IsArray(v) THEN [r |-> FieldsArray(r0, ForEach(v)), panic |-> ""]
     ELSE IF IsObject(v) THEN [r |-> FieldsObject(r0, ForEach(v)), panic |-> ""]
     ELSE [r |-> r0, panic |-> "unknown field type"]

\* parse: one top-level key/value pair; [r, panic].
parse(r, k, v) ==
  LET ok(x) == [r |-> x, panic |-> ""]
  IN CASE k = "ok" -> ok([r EXCEPT !.Ok = Bool(v)])
       [] k = "id" -> ok([r EXCEPT !.ID = v.str])
       [] k = "object" ->
            ok([r EXCEPT !.Object = IF v.type = "JSON" THEN v.raw ELSE v.str])
       [] k = "ids" -> ok([r EXCEPT !.IDs = AppendStr(r.IDs, ForEach(v))])
       [] k = "objects" ->
            ok([r EXCEPT !.Objects = AppendRaw(r.Objects, ForEach(v))])
       [] k = "fields" -> parsefields(r, v)
       [] k = "count" -> ok([r EXCEPT !.Count = Int64(v.num)])
       [] k = "cursor" -> ok([r EXCEPT !.Cursor = Int64(v.num)])
       [] k = "ttl" -> ok([r EXCEPT !.TTL = v.num])
       [] k = "err" -> ok([r EXCEPT !.Err = v.str])
       [] k = "elapsed" -> ok([r EXCEPT !.Elapsed = v.str])
       [] k = "live" -> ok([r EXCEPT !.Live = Bool(v)])
       [] k = "command" -> ok([r EXCEPT !.Command = v.str])
       [] k = "group" -> ok([r EXCEPT !.Group = v.str])
       [] k = "detect" -> ok([r EXCEPT !.Detect = v.str])
       [] k = "key" -> ok([r EXCEPT !.Key = v.str])
       [] k = "time" -> ok([r EXCEPT !.Time = ParseTime(v.str)])
       [] OTHER -> [r |-> r, panic |-> "unknown response value"]

\* A ForEach that goes on after a panic and forgets it.
RECURSIVE ParseAllNoPanic(_, _)
ParseAllNoPanic(r, items) ==
  IF items = <<>> THEN [r |-> r, panic |-> ""]
  ELSE ParseAllNoPanic(parse(r, Head(items).k, Head(items).v).r, Tail(items))

\* A ForEach that remembers the first panic but still hands the members
\* after it to parse.
RECURSIVE ParseAllGoOn(_, _)
ParseAllGoOn(r, items) ==
  IF items = <<>> THEN [r |-> r, panic |-> ""]
  ELSE LET one == parse(r, Head(items).k, Head(items).v)
           rest == ParseAllGoOn(one.r, Tail(items))
       IN [r |-> rest.r, panic |-> IF one.panic # "" THEN one.panic ELSE rest.panic]

\* A ForEach whose iterator returns false after the key ok.
RECURSIVE ParseAllStopAtOk(_, _)
ParseAllStopAtOk(r, items) ==
  IF items = <<>> THEN [r |-> r, panic |-> ""]
  ELSE LET one == parse(r, Head(items).k, Head(items).v)
       IN IF one.panic # "" \/ Head(items).k = "ok" THEN one
          ELSE ParseAllStopAtOk(one.r, Tail(items))

\* A ForEach that visits every member and reports the last panic.
RECURSIVE ParseAllLastPanic(_, _)
ParseAllLastPanic(r, items) ==
  IF items = <<>> THEN [r |-> r, panic |-> ""]
  ELSE LET one == parse(r, Head(items).k, Head(items).v)
           rest == ParseAllLastPanic(one.r, Tail(items))
       IN [r |-> rest.r, panic |-> IF rest.panic # "" THEN rest.panic ELSE one.panic]

\* gjson.ParseBytes(b).ForEach(r.parse): stops at the first panic.
RECURSIVE ParseAll(_, _)
ParseAll(r, items) ==
  IF items = <<>> THEN [r |-> r, panic |-> ""]
  ELSE LET one == parse(r, Head(items).k, Head(items).v)
       IN IF one.panic # "" THEN one ELSE ParseAll(one.r, Tail(items))

\* UnmarshalText without the gjson.ValidBytes test.
UnmarshalTextNoValid(r, b) ==
  LET res == ParseAll(r, ForEach(b.root))
  IN IF res.panic # ""
       THEN [r |-> res.r,
             err |-> MkErr("error unmarshaling response: " \o res.panic, {})]
       ELSE [r |-> res.r, err |-> NilErr]

\* UnmarshalText: [r, err]; r is the receiver after the call.
UnmarshalText(r, b) ==
  IF ~b.valid
    THEN [r |-> r,
          err |-> newError(NilErr, "error unmarshaling response: not valid JSON")]
    ELSE LET res == ParseAll(r, ForEach(b.root))
         IN IF res.panic # ""
              THEN [r |-> res.r,
                    err |-> MkErr("error unmarshaling response: " \o res.panic, {})]
              ELSE [r |-> res.r, err |-> NilErr]

(***************************************************************************)
(* Replies as the connection delivers them to radix.Cmd: a RESP simple     *)
(* string carrying the reply bytes, a RESP error (the server-level error   *)
(* the mock's ReturnErr writes), or a transport failure while reading.     *)
(***************************************************************************)
NoReply == [kind |-> "none", text |-> "", body |-> InvalidJSON("")]

RespString(b) == [kind |-> "string", text |-> "", body |-> b]

RespError(text) == [kind |-> "error", text |-> text, body |-> InvalidJSON("")]

IOError == [kind |-> "ioerr", text |-> "EOF", body |-> InvalidJSON("")]

\* Every reply decoded into one Response that is never renewed: r has
\* already taken the reply OUTPUT json got when Connect made its connection.
CmdShared(r, reply) ==
  CASE reply.kind = "error" -> [r |-> r, err |-> MkErr(reply.text, {"resp2.Error"})]
    [] reply.kind = "ioerr" -> [r |-> r, err |-> MkErr(reply.text, {"io"})]
    [] OTHER -> UnmarshalText(UnmarshalText(r, connect.reply.body).r, reply.body)

\* conn.Do(radix.Cmd(r, ...)) once the reply is read: a RESP error or a
\* transport failure is returned as the error and leaves r alone, any
\* other reply is handed to r.UnmarshalText.
Cmd(r, reply) ==
  CASE reply.kind = "error" -> [r |-> r, err |-> MkErr(reply.text, {"resp2.Error"})]
    [] reply.kind = "ioerr" -> [r |-> r, err |-> MkErr(reply.text, {"io"})]
    [] OTHER -> UnmarshalText(r, reply.body)

\* Values of the mock server's handlers.
IDNotFound == "id not found"

TestOkFalse == "test ok false"

TestServerError == "test server error"

TestObject == JObject(<< Member("id", JString("test")) >>)

TestTTL == JNumber("5.67", 5670)

\* {"ok":true,"object":{"id":"test"},"ttl":5.67}
OkTrueDoc ==
  ValidJSON(JObject(<< Member("ok", JTrue), Member("object", TestObject),
                       Member("ttl", TestTTL) >>))

\* {"ok":false,"err":"<text>"}
OkFalseDoc(text) ==
  ValidJSON(JObject(<< Member("ok", JFalse), Member("err", JString(text)) >>))

\* {invalid}
InvalidDoc == InvalidJSON("{invalid}")

\* {"zzz":true}
UnknownDoc == ValidJSON(JObject(<< Member("zzz", JTrue) >>))

\* The err texts of ok:false replies, and the replies the server may send.
ErrTexts == {IDNotFound, TestOkFalse, "bad request"}

Replies ==
  {RespString(OkTrueDoc), RespString(InvalidDoc), RespString(UnknownDoc),
   RespError(TestServerError), RespError(IDNotFound), IOError}
  \cup {RespString(OkFalseDoc(t)) : t \in ErrTexts}

(***************************************************************************)
(* Go slices of strings (nil or not), and strconv.Itoa.                    *)
(***************************************************************************)
NilSlice == [nil |-> TRUE, elems |-> <<>>]

Slice(s) == [nil |-> FALSE, elems |-> s]

Digit(d) ==
  CASE d = 0 -> "0" [] d = 1 -> "1" [] d = 2 -> "2" [] d = 3 -> "3"
    [] d = 4 -> "4" [] d = 5 -> "5" [] d = 6 -> "6" [] d = 7 -> "7"
    [] d = 8 -> "8" [] OTHER -> "9"

RECURSIVE Itoa(_)
Itoa(n) ==
  IF n < 0 THEN "-" \o Itoa(-n)
  ELSE IF n < 10 THEN Digit(n)
  ELSE Itoa(n \div 10) \o Digit(n % 10)

(***************************************************************************)
(* runcmd and connectJSON.                                                 *)
(***************************************************************************)
NilResp == [nil |-> TRUE, val |-> ZeroResponse]

Ptr(r) == [nil |-> FALSE, val |-> r]

\* runcmd, lines 239-241: the argument check.
runcmdArgs(args) == IF args.nil THEN errArgs ELSE NilErr

\* runcmd without the test of r.Ok.
runcmdNoOkCheck(do) ==
  IF ~do.err.nil THEN [resp |-> NilResp, err |-> newError(do.err, "database error")]
  ELSE [resp |-> Ptr(do.r), err |-> NilErr]

\* A runcmd that also takes a non-empty Err for a failure.
runcmdErrFails(do) ==
  IF ~do.err.nil THEN [resp |-> NilResp, err |-> newError(do.err, "database error")]
  ELSE IF ~do.r.Ok \/ do.r.Err # "" THEN [resp |-> NilResp, err |-> WrapResponse(do.r.Err)]
  ELSE [resp |-> Ptr(do.r), err |-> NilErr]

\* runcmd, lines 246-254: the result once pool.Do returned do = [r, err].
runcmd(do) ==
  IF ~do.err.nil THEN [resp |-> NilResp, err |-> newError(do.err, "database error")]
  ELSE IF ~do.r.Ok THEN [resp |-> NilResp, err |-> WrapResponse(do.r.Err)]
  ELSE [resp |-> Ptr(do.r), err |-> NilErr]

\* connectJSON, lines 259-262: radix.Dial failed.
connectJSONDial == newError(MkErr("dial failed", {"io"}), "error connecting to database")

\* connectJSON without the test of resp.Ok.
connectJSONNoOkCheck(reply) ==
  LET do == Cmd(ZeroResponse, reply)
  IN IF ~do.err.nil
       THEN [conn |-> FALSE, err |-> newError(do.err, "error setting output to JSON")]
     ELSE [conn |-> TRUE, err |-> NilErr]

\* connectJSON, lines 264-279, once the reply to OUTPUT json is read:
\* conn tells whether the connection is returned (otherwise it is closed).
connectJSON(reply) ==
  LET do == Cmd(ZeroResponse, reply)
  IN IF ~do.err.nil
       THEN [conn |-> FALSE, err |-> newError(do.err, "error setting output to JSON")]
     ELSE IF ~do.r.Ok
       THEN [conn |-> FALSE, err |-> WrapResponse(do.r.Err)]
     ELSE [conn |-> TRUE, err |-> NilErr]

\* Connect returning the Database it allocated together with the error.
ConnectKeepsDb(err) ==
  IF ~err.nil THEN [db |-> TRUE, err |-> newError(err, "error connecting to server")]
  ELSE [db |-> TRUE, err |-> NilErr]

\* Connect, lines 60-64: the result, given the error of radix.NewPool.
Connect(err) ==
  IF ~err.nil THEN [db |-> FALSE, err |-> newError(err, "error connecting to server")]
  ELSE [db |-> TRUE, err |-> NilErr]

(***************************************************************************)
(* The facade.  Each operation has an entry part, which returns early with *)
(* err or hands cmd and args to runcmd, and a return part, which turns     *)
(* runcmd's result rc into the operation's return values.                  *)
(***************************************************************************)
Early(e) == [err |-> e, cmd |-> "", args |-> NilSlice]

Run(cmd, args) == [err |-> NilErr, cmd |-> cmd, args |-> args]

Ret(resp, err, ttl) == [resp |-> resp, err |-> err, ttl |-> ttl]

Set(dbpool, key, id, args) ==
  IF dbpool = "nil" THEN Early(errUninitialized)
  ELSE IF args.nil THEN Early(errArgs)
  ELSE Run("SET", Slice(<<key, id>> \o args.elems))

\* Get leaving out the extra arguments.
GetDropArgs(dbpool, key, id, args) ==
  IF dbpool = "nil" THEN Early(errUninitialized)
  ELSE Run("GET", Slice(<<key, id>>))

Get(dbpool, key, id, args) ==
  IF dbpool = "nil" THEN Early(errUninitialized)
  ELSE Run("GET", Slice(<<key, id>> \o (IF args.nil THEN <<>> ELSE args.elems)))

\* Get comparing with the server's text alone, without runcmd's prefix.
GetRetBareText(rc) ==
  IF ~rc.err.nil
    THEN IF rc.err.text = "id not found"
           THEN Ret(NilResp, NilErr, 0)
           ELSE Ret(NilResp, rc.err, 0)
    ELSE Ret(rc.resp, NilErr, 0)

\* Get translating every received error, whatever its text.
GetRetAnyText(rc) ==
  IF ~rc.err.nil
    THEN IF "errResponse" \in rc.err.chain
           THEN Ret(NilResp, NilErr, 0)
           ELSE Ret(NilResp, rc.err, 0)
    ELSE Ret(rc.resp, NilErr, 0)

\* Get translating id not found whether the reply or the connection
\* reported it.
GetRetEitherLayer(rc) ==
  IF ~rc.err.nil
    THEN IF rc.err.text \in {"received error: id not found",
                             "database error: id not found"}
           THEN Ret(NilResp, NilErr, 0)
           ELSE Ret(NilResp, rc.err, 0)
    ELSE Ret(rc.resp, NilErr, 0)

GetRet(rc) ==
  IF ~rc.err.nil
    THEN IF rc.err.text = "received error: id not found"
           THEN Ret(NilResp, NilErr, 0)
           ELSE Ret(NilResp, rc.err, 0)
    ELSE Ret(rc.resp, NilErr, 0)

Scan(dbpool, key, args) ==
  IF dbpool = "nil" THEN Early(errUninitialized)
  ELSE Run("SCAN", Slice(<<key>> \o (IF args.nil THEN <<>> ELSE args.elems)))

Search(dbpool, key, args) ==
  IF dbpool = "nil" THEN Early(errUninitialized)
  ELSE Run("SEARCH", Slice(<<key>> \o (IF args.nil THEN <<>> ELSE args.elems)))

\* Scan and Search with Get's not-found translation.
RespRetNotFound(rc) ==
  IF ~rc.err.nil
    THEN IF rc.err.text = "received error: id not found"
           THEN Ret(NilResp, NilErr, 0)
           ELSE Ret(NilResp, rc.err, 0)
    ELSE Ret(rc.resp, NilErr, 0)

\* Scan and Search, lines 138-143 and 159-164.
RespRet(rc) ==
  IF ~rc.err.nil THEN Ret(NilResp, rc.err, 0) ELSE Ret(rc.resp, NilErr, 0)

\* Del without the test of db.pool.
DelNoCheck(dbpool, key, id) == Run("DEL", Slice(<<key, id>>))

Del(dbpool, key, id) ==
  IF dbpool = "nil" THEN Early(errUninitialized)
  ELSE Run("DEL", Slice(<<key, id>>))

PDel(dbpool, key, pattern) ==
  IF dbpool = "nil" THEN Early(errUninitialized)
  ELSE Run("PDEL", Slice(<<key, pattern>>))

Expire(dbpool, key, id, seconds) ==
  IF dbpool = "nil" THEN Early(errUninitialized)
  ELSE Run("EXPIRE", Slice(<<key, id, Itoa(seconds)>>))

Persist(dbpool, key, id) ==
  IF dbpool = "nil" THEN Early(errUninitialized)
  ELSE Run("PERSIST", Slice(<<key, id>>))

\* Set, Del, PDel, Expire and Persist return runcmd's error alone.
ErrRet(rc) ==
  IF ~rc.err.nil THEN Ret(NilResp, rc.err, 0) ELSE Ret(NilResp, NilErr, 0)

TTL(dbpool, key, id) ==
  IF dbpool = "nil" THEN Early(errUninitialized)
  ELSE Run("TTL", Slice(<<key, id>>))

\* A TTL that forgets the value of the reply.
TTLRetZero(rc) ==
  IF ~rc.err.nil THEN Ret(NilResp, rc.err, 0) ELSE Ret(NilResp, NilErr, 0)

TTLRet(rc) ==
  IF ~rc.err.nil THEN Ret(NilResp, rc.err, 0) ELSE Ret(NilResp, NilErr, rc.resp.val.TTL)

\* Close, lines 69-78: poolerr is the error of pool.Close().
Close(dbpool, poolerr) ==
  IF dbpool = "nil" THEN errUninitialized
  ELSE IF ~poolerr.nil THEN newError(poolerr, "error closing database connection")
  ELSE NilErr

(***************************************************************************)
(* Bounds and inputs.                                                      *)
(***************************************************************************)
\* Calls made on the Database in one run.
MaxCalls == 2

\* Connections dialed in one run.
MaxConns == 2

\* The poolsize given to Connect.
PoolSize == 1

Conns == 1..MaxConns

\* The execution contexts calling the Database.
Callers == {"c1"}

Keys == {"test"}

Ids == {"obj1"}

Patterns == {"obj*"}

ArgLists == {NilSlice, Slice(<<>>), Slice(<<"STRING", "testing">>)}

SecondsSet == {60, -1}

NoCall ==
  [op |-> "none", key |-> "", id |-> "", args |-> NilSlice, seconds |-> 0]

Calls ==
  [op : {"Set", "Get"}, key : Keys, id : Ids, args : ArgLists, seconds : {0}]
  \cup [op : {"Scan", "Search"}, key : Keys, id : {""}, args : ArgLists, seconds : {0}]
  \cup [op : {"Del", "Persist", "TTL"}, key : Keys, id : Ids, args : {NilSlice}, seconds : {0}]
  \cup [op : {"PDel"}, key : Keys, id : Patterns, args : {NilSlice}, seconds : {0}]
  \cup [op : {"Expire"}, key : Keys, id : Ids, args : {NilSlice}, seconds : SecondsSet]

\* The entry part of the called operation.
Entry(dbpool, c) ==
  CASE c.op = "Set" -> Set(dbpool, c.key, c.id, c.args)
    [] c.op = "Get" -> Get(dbpool, c.key, c.id, c.args)
    [] c.op = "Scan" -> Scan(dbpool, c.key, c.args)
    [] c.op = "Search" -> Search(dbpool, c.key, c.args)
    [] c.op = "Del" -> Del(dbpool, c.key, c.id)
    [] c.op = "PDel" -> PDel(dbpool, c.key, c.id)
    [] c.op = "Expire" -> Expire(dbpool, c.key, c.id, c.seconds)
    [] c.op = "Persist" -> Persist(dbpool, c.key, c.id)
    [] OTHER -> TTL(dbpool, c.key, c.id)

\* The return part of the called operation.
Return(c, rc) ==
  CASE c.op = "Get" -> GetRet(rc)
    [] c.op \in {"Scan", "Search"} -> RespRet(rc)
    [] c.op = "TTL" -> TTLRet(rc)
    [] OTHER -> ErrRet(rc)

(***************************************************************************)
(* State.                                                                  *)
(***************************************************************************)
dbvars == <<pool, connect, conns, callers, ncalls>>

vars == <<pool, connect, conns, callers, ncalls, dec>>

\* A Response nobody has decoded into yet: n counts the UnmarshalText calls,
\* b is the input of the last call, prev the receiver before it, r the
\* receiver after it and err what it returned.
NewDec ==
  [pc |-> "new", n |-> 0, b |-> InvalidJSON(""), prev |-> ZeroResponse,
   r |-> ZeroResponse, err |-> NilErr]

NoFrame == <<>>

HandshakeFrame == <<"OUTPUT", "json">>

\* A connection not dialed yet.  state: unborn, dialed, hs_sent (OUTPUT json
\* written, reply not read), idle (in the pool), busy (checked out), closed.
\* first is the first frame written, nsent and nrecv count the frames
\* written and the replies read, nhandshake the OUTPUT json frames written;
\* hs tells whether the first reply read was a successful handshake reply
\* ("none" before it is read); pending is the frame the server has not
\* answered, inflight the reply not yet read.
NewConn ==
  [state |-> "unborn", creator |-> "none", first |-> NoFrame, nsent |-> 0,
   nrecv |-> 0, nhandshake |-> 0, hs |-> "none", pending |-> NoFrame,
   inflight |-> NoReply]

NoRet == Ret(NilResp, NilErr, 0)

NoRc == [resp |-> NilResp, err |-> NilErr]

\* The Connect call.  pc: idle, running, returned; conn is the connection
\* it created, reply the handshake reply read on it, ret its return values
\* (db tells whether the Database returned is non-nil).
\*
\* An execution context before its first call.  pc: idle, acquire (inside
\* pool.Do, waiting for a connection), await (request written, reply not
\* read), returned.  db is db.pool as the call found it, ran tells whether
\* runcmd was entered, held is the connection checked out (0 for none),
\* frames are the request frames the call wrote, nreplies
\* the replies it read, reply the last of them, rc runcmd's result, ret the
\* operation's return values.
NewCaller ==
  [pc |-> "idle", call |-> NoCall, db |-> "nil", cmd |-> "", args |-> NilSlice,
   held |-> 0,
   ran |-> FALSE, frames |-> <<>>, nreplies |-> 0, reply |-> NoReply,
   rc |-> NoRc, ret |-> NoRet]

Init ==
  /\ pool = "nil"
  /\ connect = [pc |-> "idle", conn |-> 0, reply |-> NoReply,
                ret |-> [db |-> FALSE, err |-> NilErr]]
  /\ conns = [c \in Conns |-> NewConn]
  /\ callers = [p \in Callers |-> NewCaller]
  /\ ncalls = 0
  /\ dec = NewDec

Unborn == {c \in Conns : conns[c].state = "unborn"}

\* Connections the pool counts: being created for it, idle or checked out.
Live == {c \in Conns : conns[c].state \in {"dialed", "hs_sent", "idle", "busy"}}

NextConn == CHOOSE c \in Unborn : \A d \in Unborn : c <= d

(***************************************************************************)
(* Connect and the creation of connections.                                *)
(***************************************************************************)
\* Connect, lines 52-59, with connectJSON's radix.Dial: NewPool creates its
\* first connection through connectJSON; a failed dial ends Connect.
ConnectDial(dialok) ==
  /\ pool = "nil"
  /\ connect.pc # "running"
  /\ Unborn # {}
  /\ LET c == NextConn
     IN IF dialok
          THEN /\ conns' = [conns EXCEPT ![c].state = "dialed",
                                         ![c].creator = "connect"]
               /\ connect' = [connect EXCEPT !.pc = "running", !.conn = c,
                                              !.reply = NoReply]
          ELSE /\ conns' = [conns EXCEPT ![c].state = "closed",
                                         ![c].creator = "connect"]
               /\ connect' = [pc |-> "returned", conn |-> c, reply |-> NoReply,
                              ret |-> Connect(connectJSONDial)]
  /\ UNCHANGED <<pool, callers, ncalls, dec>>

\* The pool creates a further connection through connectJSON while it holds
\* fewer than poolsize.
PoolDial(dialok) ==
  /\ pool = "open"
  /\ Cardinality(Live) < PoolSize
  /\ Unborn # {}
  /\ LET c == NextConn
     IN conns' = [conns EXCEPT ![c].state = IF dialok THEN "dialed" ELSE "closed",
                               ![c].creator = "pool"]
  /\ UNCHANGED <<pool, connect, callers, ncalls, dec>>

\* connectJSON, line 266, first half: the request OUTPUT json is written.
HandshakeSend(c) ==
  /\ conns[c].state = "dialed"
  /\ conns' = [conns EXCEPT ![c].state = "hs_sent",
                            ![c].first = IF conns[c].nsent = 0 THEN HandshakeFrame
                                         ELSE conns[c].first,
                            ![c].nsent = conns[c].nsent + 1,
                            ![c].nhandshake = conns[c].nhandshake + 1,
                            ![c].pending = HandshakeFrame]
  /\ UNCHANGED <<pool, connect, callers, ncalls, dec>>

\* The server answers the request it has read, or the transport fails.
ServerReply(c, reply) ==
  /\ conns[c].pending # NoFrame
  /\ conns[c].inflight = NoReply
  /\ conns' = [conns EXCEPT ![c].pending = NoFrame, ![c].inflight = reply]
  /\ UNCHANGED <<pool, connect, callers, ncalls, dec>>

\* A reply that completes the handshake: it decodes, and with Ok = true.
GoodReply(reply) ==
  /\ reply.kind = "string"
  /\ UnmarshalText(ZeroResponse, reply.body).err.nil
  /\ UnmarshalText(ZeroResponse, reply.body).r.Ok

\* The connection after one more reply was read from it.
Read(cn) ==
  [cn EXCEPT !.inflight = NoReply, !.nrecv = cn.nrecv + 1,
             !.hs = IF cn.nrecv > 0 THEN cn.hs
                    ELSE IF GoodReply(cn.inflight) THEN "ok" ELSE "failed"]

\* connectJSON, lines 266-279, second half: the reply is read and checked;
\* the connection is closed or returned to its creator.  Connect returns
\* when its connection is decided; the pool admits a connection it created.
HandshakeRecv(c) ==
  /\ conns[c].state = "hs_sent"
  /\ conns[c].inflight # NoReply
  /\ LET res == connectJSON(conns[c].inflight)
         admitted == res.conn /\ ~(conns[c].creator = "pool" /\ pool = "closed")
     IN /\ conns' = [conns EXCEPT ![c] =
                       [Read(conns[c]) EXCEPT !.state = IF admitted THEN "idle"
                                                        ELSE "closed"]]
        /\ IF conns[c].creator = "connect"
             THEN /\ connect' = [connect EXCEPT !.pc = "returned",
                                                !.reply = conns[c].inflight,
                                                !.ret = Connect(res.err)]
                  /\ pool' = IF Connect(res.err).db THEN "open" ELSE pool
             ELSE UNCHANGED <<connect, pool>>
  /\ UNCHANGED <<callers, ncalls, dec>>

(***************************************************************************)
(* Calls on the Database.                                                  *)
(***************************************************************************)
\* The error of a radix call on a pool that was closed.
errClientClosed == MkErr("client is closed", {"radix"})

\* The facade operation up to pool.Do: the uninitialized check, the
\* argument checks of Set and of runcmd, and r = new(Response).
CallStart(p, c) ==
  /\ callers[p].pc \in {"idle", "returned"}
  /\ ncalls < MaxCalls
  /\ ncalls' = ncalls + 1
  /\ LET e == Entry(pool, c)
         base == [NewCaller EXCEPT !.call = c, !.db = pool]
     IN callers' = [callers EXCEPT ![p] =
          IF ~e.err.nil
            THEN [base EXCEPT !.pc = "returned", !.ret = Ret(NilResp, e.err, 0)]
          ELSE IF ~runcmdArgs(e.args).nil
            THEN LET rc == [resp |-> NilResp, err |-> runcmdArgs(e.args)]
                 IN [base EXCEPT !.pc = "returned", !.ran = TRUE, !.rc = rc,
                                 !.ret = Return(c, rc)]
          ELSE [base EXCEPT !.pc = "acquire", !.ran = TRUE, !.cmd = e.cmd,
                            !.args = e.args]]
  /\ UNCHANGED <<pool, connect, conns, dec>>

\* Close: closing the pool closes its idle connections; a connection that
\* is checked out or still being created is closed when it comes back.
CloseCall(p) ==
  /\ callers[p].pc \in {"idle", "returned"}
  /\ ncalls < MaxCalls
  /\ ncalls' = ncalls + 1
  /\ LET err == Close(pool, IF pool = "closed" THEN errClientClosed ELSE NilErr)
     IN callers' = [callers EXCEPT ![p] =
          [NewCaller EXCEPT !.pc = "returned", !.call = [NoCall EXCEPT !.op = "Close"],
                            !.db = pool,
                            !.ret = Ret(NilResp, err, 0)]]
  /\ pool' = IF pool = "open" THEN "closed" ELSE pool
  /\ conns' = IF pool = "open"
                THEN [c \in Conns |->
                        IF conns[c].state = "idle"
                          THEN [conns[c] EXCEPT !.state = "closed"]
                          ELSE conns[c]]
                ELSE conns
  /\ UNCHANGED <<connect, dec>>

\* A pool that hands a connection out once only: a connection that has
\* served a command is not checked out again.
AvailableUnused(c) == conns[c].state = "idle" /\ conns[c].nrecv <= 1

\* The pool's checkout: only a connection that is in the pool, that is one
\* no command holds, can be handed to pool.Do.
Available(c) == conns[c].state = "idle"

\* A runcmd that sets the output mode again before each command: OUTPUT
\* json goes out in front of the request frame.
RuncmdSendHandshake(p, c) ==
  /\ callers[p].pc = "acquire"
  /\ pool = "open"
  /\ Available(c)
  /\ LET frame == <<callers[p].cmd>> \o callers[p].args.elems
     IN /\ conns' = [conns EXCEPT ![c].state = "busy",
                                  ![c].nsent = conns[c].nsent + 2,
                                  ![c].nhandshake = conns[c].nhandshake + 1,
                                  ![c].pending = frame]
        /\ callers' = [callers EXCEPT ![p].pc = "await", ![p].held = c,
                                      ![p].frames = Append(callers[p].frames, frame)]
  /\ UNCHANGED <<pool, connect, ncalls, dec>>

\* runcmd, line 245, first half: pool.Do checks a connection out of the
\* pool and writes the request frame, the command name and then the
\* arguments, on it.
RuncmdSend(p, c) ==
  /\ callers[p].pc = "acquire"
  /\ pool = "open"
  /\ Available(c)
  /\ LET frame == <<callers[p].cmd>> \o callers[p].args.elems
     IN /\ conns' = [conns EXCEPT ![c].state = "busy",
                                  ![c].first = IF conns[c].nsent = 0 THEN frame
                                               ELSE conns[c].first,
                                  ![c].nsent = conns[c].nsent + 1,
                                  ![c].pending = frame]
        /\ callers' = [callers EXCEPT ![p].pc = "await", ![p].held = c,
                                      ![p].frames = Append(callers[p].frames, frame)]
  /\ UNCHANGED <<pool, connect, ncalls, dec>>

\* runcmd, lines 245-254, when the pool was closed: pool.Do fails without
\* a connection.
RuncmdClosed(p) ==
  /\ callers[p].pc = "acquire"
  /\ pool = "closed"
  /\ LET rc == runcmd([r |-> ZeroResponse, err |-> errClientClosed])
     IN callers' = [callers EXCEPT ![p].pc = "returned", ![p].rc = rc,
                                   ![p].ret = Return(callers[p].call, rc)]
  /\ UNCHANGED <<pool, connect, conns, ncalls, dec>>

\* A connection left checked out when the command failed.
PutLeak(dbpool, do) ==
  IF ~do.err.nil THEN "busy"
  ELSE IF dbpool = "closed" THEN "closed" ELSE "idle"

\* The state of a connection when pool.Do puts it back: a connection that
\* failed, or any connection of a closed pool, is closed, any other is idle.
Put(dbpool, do) ==
  IF "io" \in do.err.chain \/ dbpool = "closed" THEN "closed" ELSE "idle"

\* runcmd, lines 245-254, second half: pool.Do reads the reply into the new
\* Response and puts the connection back; runcmd classifies the result and
\* the operation returns.
RuncmdRecv(p) ==
  /\ callers[p].pc = "await"
  /\ LET c == callers[p].held
         reply == conns[c].inflight
         do == Cmd(ZeroResponse, reply)
         rc == runcmd(do)
     IN /\ reply # NoReply
        /\ conns' = [conns EXCEPT ![c] =
                       [Read(conns[c]) EXCEPT !.state = Put(pool, do)]]
        /\ callers' = [callers EXCEPT ![p].pc = "returned",
                                      ![p].held = IF Put(pool, do) = "busy" THEN c ELSE 0,
                                      ![p].nreplies = callers[p].nreplies + 1,
                                      ![p].reply = reply, ![p].rc = rc,
                                      ![p].ret = Return(callers[p].call, rc)]
  /\ UNCHANGED <<pool, connect, ncalls, dec>>

Next ==
  \/ \E ok \in BOOLEAN : ConnectDial(ok)
  \/ \E ok \in BOOLEAN : PoolDial(ok)
  \/ \E c \in Conns : HandshakeSend(c)
  \/ \E c \in Conns, reply \in Replies : ServerReply(c, reply)
  \/ \E c \in Conns : HandshakeRecv(c)
  \/ \E p \in Callers, c \in Calls : CallStart(p, c)
  \/ \E p \in Callers : CloseCall(p)
  \/ \E p \in Callers, c \in Conns : RuncmdSend(p, c)
  \/ \E p \in Callers : RuncmdClosed(p)
  \/ \E p \in Callers : RuncmdRecv(p)

Spec == Init /\ [][Next]_vars

(***************************************************************************)
(* Two execution contexts sharing one Database.  The calls and the replies *)
(* are a part of those of Spec: one call of each return shape, and one     *)
(* reply of each kind that runcmd tells apart.                             *)
(***************************************************************************)
ConcCallers == {"c1", "c2"}

ConcCalls ==
  [op : {"Get", "Del", "TTL"}, key : Keys, id : Ids, args : {NilSlice},
   seconds : {0}]

ConcReplies ==
  {RespString(OkTrueDoc), RespString(OkFalseDoc(IDNotFound)),
   RespError(TestServerError), IOError}

InitConc ==
  /\ pool = "nil"
  /\ connect = [pc |-> "idle", conn |-> 0, reply |-> NoReply,
                ret |-> [db |-> FALSE, err |-> NilErr]]
  /\ conns = [c \in Conns |-> NewConn]
  /\ callers = [p \in ConcCallers |-> NewCaller]
  /\ ncalls = 0
  /\ dec = NewDec

NextConc ==
  \/ \E ok \in BOOLEAN : ConnectDial(ok)
  \/ \E ok \in BOOLEAN : PoolDial(ok)
  \/ \E c \in Conns : HandshakeSend(c)
  \/ \E c \in Conns, reply \in ConcReplies : ServerReply(c, reply)
  \/ \E c \in Conns : HandshakeRecv(c)
  \/ \E p \in ConcCallers, c \in ConcCalls : CallStart(p, c)
  \/ \E p \in ConcCallers : CloseCall(p)
  \/ \E p \in ConcCallers, c \in Conns : RuncmdSend(p, c)
  \/ \E p \in ConcCallers : RuncmdClosed(p)
  \/ \E p \in ConcCallers : RuncmdRecv(p)

SpecConc == InitConc /\ [][NextConc]_vars

(***************************************************************************)
(* The decoder on its own: a Response value and the UnmarshalText calls    *)
(* made on it.  The inputs are the documents of one member of DecMembers,  *)
(* the documents of several members of MixMembers, so that every pair of   *)
(* them occurs in both orders and every one occurs twice, and the texts    *)
(* that are not JSON.                                                      *)
(***************************************************************************)
\* {"type":"Point","coordinates":[0,0]}
PointObject ==
  JObject(<< Member("type", JString("Point")),
             Member("coordinates", JArray(<< JNumber("0", 0), JNumber("0", 0) >>)) >>)

\* {"id":"value1","object":<PointObject>}, an element of objects
ObjectsElem(id) ==
  JObject(<< Member("id", JString(id)), Member("object", PointObject) >>)

\* Values of the key object: an object, an array, a number, the booleans,
\* a string and null.
ObjectValues ==
  {PointObject, JArray(<< JNumber("0", 0), JNumber("0", 0) >>),
   JNumber("5", 5 * Milli), JTrue, JFalse, JString("objstr"), JNull}

\* Values of the key fields: lists of names, name-to-number objects, and
\* values that are neither.
FieldsLists ==
  {JArray(<< >>), JArray(<< JString("fZ"), JString("fY") >>),
   JArray(<< JString("fY"), JString("fZ"), JString("fX") >>),
   JArray(<< JString("fZ"), JString("fZ") >>)}

FieldsMaps ==
  {JObject(<< >>),
   JObject(<< Member("fY", JNumber("999.999", 999999)),
              Member("fZ", JNumber("123", 123 * Milli)) >>),
   JObject(<< Member("fZ", JNumber("1", 1 * Milli)),
              Member("fZ", JNumber("2", 2 * Milli)) >>)}

FieldsScalars == {JTrue, JString("fZ"), JNumber("5", 5 * Milli), JNull}

\* Values of the keys ids and objects.
IdsValues ==
  {JArray(<< >>), JArray(<< JString("value1"), JString("value2") >>)}

ObjectsValues ==
  {JArray(<< >>), JArray(<< ObjectsElem("value1"), ObjectsElem("value2") >>)}

DecMembers ==
  {Member("ok", JTrue), Member("zzz", JTrue)}
  \cup {Member("object", v) : v \in ObjectValues}
  \cup {Member("fields", v) : v \in FieldsLists \cup FieldsMaps \cup FieldsScalars}
  \cup {Member("ids", v) : v \in IdsValues}
  \cup {Member("objects", v) : v \in ObjectsValues}

\* The members that documents of several members are made of: a key of
\* each kind of handling, the unknown key and the three shapes of fields.
MixMembers ==
  {Member("ok", JTrue), Member("zzz", JTrue), Member("object", PointObject),
   Member("fields", JArray(<< JString("fZ"), JString("fY") >>)),
   Member("fields", JObject(<< Member("fY", JNumber("999.999", 999999)),
                               Member("fZ", JNumber("123", 123 * Milli)) >>)),
   Member("fields", JTrue),
   Member("ids", JArray(<< JString("value1"), JString("value2") >>)),
   Member("objects", JArray(<< ObjectsElem("value1"), ObjectsElem("value2") >>))}

MaxMembers == 2

MemberLists ==
  {<< >>} \cup {<< m >> : m \in DecMembers}
  \cup UNION {[1..n -> MixMembers] : n \in 2..MaxMembers}

\* The frames of a geofence feed: the acknowledgement, two set events and a
\* del event.
FenceObject ==
  JObject(<< Member("type", JString("Point")),
             Member("coordinates",
                    JArray(<< JNumber("30", 30 * Milli), JNumber("30", 30 * Milli),
                              JNumber("800", 800 * Milli) >>)) >>)

FenceAck == ValidJSON(JObject(<< Member("ok", JTrue), Member("live", JTrue) >>))

FenceSet(detect) ==
  ValidJSON(JObject(<<
    Member("command", JString("set")),
    Member("group", JString("5b844beb0a1c1f009ac75639")),
    Member("detect", JString(detect)), Member("key", JString("test")),
    Member("time", JString("2018-08-27T19:07:23.578553343Z")),
    Member("id", JString("value3")), Member("object", FenceObject),
    Member("fields", JObject(<< >>)) >>))

FenceDel(time) ==
  ValidJSON(JObject(<< Member("command", JString("del")),
                       Member("id", JString("value3")), Member("time", time) >>))

FenceDocs ==
  {FenceAck, FenceSet("enter"), FenceSet("inside"),
   FenceDel(JString("2018-08-27T19:07:33.671191005Z"))}

\* Values of the key time that time.Parse refuses: a text that is no
\* timestamp, a date without a time, the empty string and a number.
BadTimes ==
  {JString("yesterday"), JString("2018-08-27"), JString(""),
   JNumber("1535396", 1535396 * Milli)}

TimeDocs ==
  {FenceDel(t) : t \in BadTimes}
  \cup {ValidJSON(JObject(<< Member("time", JString("2018-08-27T19:07:33.671191005Z")),
                             Member("time", JString("yesterday")) >>)),
        ValidJSON(JObject(<< Member("time", JString("yesterday")),
                             Member("time", JString("2018-08-27T19:07:33.671191005Z")) >>))}

\* Replies with a member before and a member after the offending one.
PartialDocs ==
  {ValidJSON(JObject(<< Member("id", JString("value3")), bad,
                        Member("object", PointObject) >>)) :
     bad \in {Member("zzz", JTrue), Member("fields", JTrue)}}

DecDocs ==
  {ValidJSON(JObject(ms)) : ms \in MemberLists}
  \cup FenceDocs \cup TimeDocs \cup PartialDocs
  \cup {InvalidDoc, InvalidJSON("")}

\* The replies after which the same Response is decoded into again.
ReuseDocs ==
  {ValidJSON(JObject(<< Member("ok", JTrue), Member("object", PointObject) >>)),
   ValidJSON(JObject(<< Member("fields", JArray(<< JString("fZ"), JString("fY") >>)),
                        Member("ids", JArray(<< JString("value1"), JString("value2") >>)) >>))}

\* UnmarshalText calls on one Response.
MaxDecodes == 2

InitDec ==
  /\ pool = "nil"
  /\ connect = [pc |-> "idle", conn |-> 0, reply |-> NoReply,
                ret |-> [db |-> FALSE, err |-> NilErr]]
  /\ conns = [c \in Conns |-> NewConn]
  /\ callers = [p \in Callers |-> NewCaller]
  /\ ncalls = 0
  /\ dec = [NewDec EXCEPT !.pc = "none"]

\* r := new(Response)
DecNew ==
  /\ dec.pc \in {"none", "decoded"}
  /\ dec' = NewDec
  /\ UNCHANGED dbvars

\* err := r.UnmarshalText(b)
DecUnmarshal(b) ==
  /\ dec.pc \in {"new", "decoded"}
  /\ dec.n < MaxDecodes
  /\ dec.pc = "decoded" => dec.b \in ReuseDocs
  /\ LET res == UnmarshalText(dec.r, b)
     IN dec' = [pc |-> "decoded", n |-> dec.n + 1, b |-> b, prev |-> dec.r,
                r |-> res.r, err |-> res.err]
  /\ UNCHANGED dbvars

NextDec ==
  \/ DecNew
  \/ \E b \in DecDocs : DecUnmarshal(b)

SpecDec == InitDec /\ [][NextDec]_vars

(***************************************************************************)
(* The two execution contexts under fair scheduling.  The server answers   *)
(* each request it has read, a handshake or a command that can take its    *)
(* next step takes it, and the pool creates a connection it is short of.   *)
(* No fairness is put on CallStart, CloseCall or ConnectDial: a caller     *)
(* need not call.                                                          *)
(***************************************************************************)
\* The calls and the replies under fair scheduling: one command, answered
\* with success, with an error of the server or by a failing transport.
FairCalls ==
  [op : {"Get"}, key : Keys, id : Ids, args : {NilSlice}, seconds : {0}]

FairReplies == {RespString(OkTrueDoc), RespError(TestServerError), IOError}

NextFair ==
  \/ \E ok \in BOOLEAN : ConnectDial(ok)
  \/ \E ok \in BOOLEAN : PoolDial(ok)
  \/ \E c \in Conns : HandshakeSend(c)
  \/ \E c \in Conns, reply \in FairReplies : ServerReply(c, reply)
  \/ \E c \in Conns : HandshakeRecv(c)
  \/ \E p \in ConcCallers, c \in FairCalls : CallStart(p, c)
  \/ \E p \in ConcCallers : CloseCall(p)
  \/ \E p \in ConcCallers, c \in Conns : RuncmdSend(p, c)
  \/ \E p \in ConcCallers : RuncmdClosed(p)
  \/ \E p \in ConcCallers : RuncmdRecv(p)

FairConc ==
  /\ WF_vars(PoolDial(TRUE))
  /\ \A c \in Conns : WF_vars(HandshakeSend(c))
  /\ \A c \in Conns : WF_vars(\E reply \in FairReplies : ServerReply(c, reply))
  /\ \A c \in Conns : WF_vars(HandshakeRecv(c))
  /\ \A p \in ConcCallers : WF_vars(\E c \in Conns : RuncmdSend(p, c))
  /\ \A p \in ConcCallers : WF_vars(RuncmdClosed(p))
  /\ \A p \in ConcCallers : WF_vars(RuncmdRecv(p))

SpecConcFair == InitConc /\ [][NextFair]_vars /\ FairConc

(***************************************************************************)
(* One execution context and a server that answers with every shape of     *)
(* reply runcmd has to classify: with and without the key ok, with and     *)
(* without err, a push event, a reply that fills the lists, and the        *)
(* failures.  The calls are one of each return shape.                      *)
(***************************************************************************)
\* {"ok":true,"err":"bad request"}
OkErrDoc ==
  ValidJSON(JObject(<< Member("ok", JTrue), Member("err", JString("bad request")) >>))

\* {}
EmptyDoc == ValidJSON(JObject(<< >>))

\* {"ok":false}
OkFalseNoErrDoc == ValidJSON(JObject(<< Member("ok", JFalse) >>))

\* {"ok":true,"fields":["fZ","fY"],"ids":["value1","value2"],"count":2,"cursor":0}
ScanDoc ==
  ValidJSON(JObject(<<
    Member("ok", JTrue),
    Member("fields", JArray(<< JString("fZ"), JString("fY") >>)),
    Member("ids", JArray(<< JString("value1"), JString("value2") >>)),
    Member("count", JNumber("2", 2 * Milli)),
    Member("cursor", JNumber("0", 0)) >>))

ShapeCalls ==
  [op : {"Get", "Del", "TTL"}, key : Keys, id : Ids, args : {NilSlice},
   seconds : {0}]
  \cup [op : {"Scan"}, key : Keys, id : {""}, args : {NilSlice}, seconds : {0}]

ShapeReplies ==
  {RespString(OkTrueDoc), RespString(OkErrDoc), RespString(EmptyDoc),
   RespString(OkFalseNoErrDoc), RespString(OkFalseDoc(TestOkFalse)),
   RespString(ScanDoc),
   RespString(FenceDel(JString("2018-08-27T19:07:33.671191005Z"))),
   RespString(UnknownDoc), RespError(TestServerError), IOError}

NextShapes ==
  \/ \E ok \in BOOLEAN : ConnectDial(ok)
  \/ \E ok \in BOOLEAN : PoolDial(ok)
  \/ \E c \in Conns : HandshakeSend(c)
  \/ \E c \in Conns, reply \in ShapeReplies : ServerReply(c, reply)
  \/ \E c \in Conns : HandshakeRecv(c)
  \/ \E p \in Callers, c \in ShapeCalls : CallStart(p, c)
  \/ \E p \in Callers : CloseCall(p)
  \/ \E p \in Callers, c \in Conns : RuncmdSend(p, c)
  \/ \E p \in Callers : RuncmdClosed(p)
  \/ \E p \in Callers : RuncmdRecv(p)

SpecShapes == Init /\ [][NextShapes]_vars

(***************************************************************************)
(* Properties.                                                             *)
(***************************************************************************)
\* The handshake of connection c is complete: OUTPUT json was the first
\* frame written, and the first reply read decoded with Ok = true.
HandshakeDone(c) == conns[c].first = HandshakeFrame /\ conns[c].hs = "ok"

\* The error is a ServerError: it wraps errResponse.
IsServerError(e) == ~e.nil /\ "errResponse" \in e.chain

\* The reply decoded without error; Decoded is the Response it gave.
Decodes(reply) ==
  reply.kind = "string" /\ UnmarshalText(ZeroResponse, reply.body).err.nil

Decoded(reply) == UnmarshalText(ZeroResponse, reply.body).r

\* The decimal text of the seconds given to Expire.
DecimalText(n) == CASE n = 60 -> "60" [] n = -1 -> "-1" [] n = 0 -> "0"

\* The command name of an operation.
CommandName(op) ==
  CASE op = "Set" -> "SET" [] op = "Get" -> "GET" [] op = "Scan" -> "SCAN"
    [] op = "Search" -> "SEARCH" [] op = "Del" -> "DEL" [] op = "PDel" -> "PDEL"
    [] op = "Expire" -> "EXPIRE" [] op = "Persist" -> "PERSIST"
    [] op = "TTL" -> "TTL"

\* The request frame of a call: the command name, the key, the id or
\* pattern, then the extra arguments in the order given.
ExpectedFrame(c) ==
  <<CommandName(c.op), c.key>>
  \o (IF c.op \in {"Scan", "Search"} THEN <<>> ELSE <<c.id>>)
  \o c.args.elems
  \o (IF c.op = "Expire" THEN <<DecimalText(c.seconds)>> ELSE <<>>)

\* C1: every connection that is idle in the pool or checked out to a
\* command has completed the handshake (OUTPUT json written first, one
\* reply read that decoded with Ok = true), and no frame other than the
\* handshake is written on a connection before that.
C1_HandshakeBeforeUse ==
  \A c \in Conns :
    /\ conns[c].state \in {"idle", "busy"} => HandshakeDone(c)
    /\ conns[c].nsent > 0 => conns[c].first = HandshakeFrame
    /\ conns[c].nsent > 1 => HandshakeDone(c)
    /\ \A p \in Callers : callers[p].held = c => HandshakeDone(c)

\* A command was written on a connection checked out to a caller.
C1_Witness ==
  \E c \in Conns, p \in Callers :
    /\ conns[c].state = "busy" /\ callers[p].held = c
    /\ conns[c].nsent = 2 /\ conns[c].pending # NoFrame

\* C2: a connection whose handshake reply is a server-level error, fails to
\* decode or decodes with Ok = false is closed after exactly the one frame
\* OUTPUT json; when it is Connect's connection, Connect returns a nil
\* Database and an error that wraps the cause; Connect never returns a
\* Database together with an error.
C2_FailedHandshake ==
  /\ \A c \in Conns :
       conns[c].hs = "failed" =>
         /\ conns[c].state = "closed"
         /\ conns[c].nsent = 1 /\ conns[c].first = HandshakeFrame
  /\ (connect.pc = "returned" /\ connect.reply # NoReply /\ ~GoodReply(connect.reply)) =>
       /\ ~connect.ret.db /\ ~connect.ret.err.nil /\ pool = "nil"
       /\ connect.reply.kind = "error" => "resp2.Error" \in connect.ret.err.chain
       /\ (Decodes(connect.reply) /\ ~Decoded(connect.reply).Ok) =>
            IsServerError(connect.ret.err)
       /\ connect.ret.err.text \notin
            {"", connect.reply.text, "received error: " \o Decoded(connect.reply).Err}
  /\ ~(connect.ret.db /\ ~connect.ret.err.nil)

\* Connect returned after its handshake was answered with ok:false.
C2_Witness ==
  /\ connect.pc = "returned"
  /\ connect.reply = RespString(OkFalseDoc(TestOkFalse))
  /\ conns[connect.conn].state = "closed"

\* C3: runcmd, called with at least one argument on a connected Database,
\* returns a non-nil Response with a nil error exactly when the reply
\* decoded with Ok = true; when the reply decoded with Ok = false it returns
\* a nil Response and a ServerError carrying the reply's Err; it never
\* returns a Response together with an error.
C3_RuncmdResult ==
  \A p \in Callers :
    (callers[p].pc = "returned" /\ callers[p].ran /\ ~callers[p].args.nil) =>
      LET cl == callers[p]
      IN /\ (~cl.rc.resp.nil /\ cl.rc.err.nil) <=>
              (cl.nreplies = 1 /\ GoodReply(cl.reply))
         /\ (cl.nreplies = 1 /\ Decodes(cl.reply) /\ ~Decoded(cl.reply).Ok) =>
              /\ cl.rc.resp.nil
              /\ IsServerError(cl.rc.err)
              /\ cl.rc.err.text = "received error: " \o Decoded(cl.reply).Err
         /\ ~(~cl.rc.resp.nil /\ ~cl.rc.err.nil)
         /\ ~cl.rc.resp.nil => cl.rc.resp.val = Decoded(cl.reply)

\* runcmd returned the Response of an ok:true reply.
C3_Witness ==
  \E p \in Callers :
    /\ callers[p].pc = "returned" /\ callers[p].ran
    /\ callers[p].reply = RespString(OkTrueDoc)
    /\ ~callers[p].rc.resp.nil

\* C4: a Get on a connected Database answered with
\* {"ok":false,"err":"id not found"} returns a nil Response and a nil
\* error, after writing exactly one GET request.
C4_GetNotFound ==
  \A p \in Callers :
    (/\ callers[p].pc = "returned" /\ callers[p].call.op = "Get"
     /\ callers[p].reply = RespString(OkFalseDoc(IDNotFound))) =>
      /\ callers[p].ret.resp.nil /\ callers[p].ret.err.nil
      /\ callers[p].frames = << <<"GET", callers[p].call.key, callers[p].call.id>>
                                  \o callers[p].call.args.elems >>

\* A Get returned after the reply id not found.
C4_Witness ==
  \E p \in Callers :
    /\ callers[p].pc = "returned" /\ callers[p].call.op = "Get"
    /\ callers[p].reply = RespString(OkFalseDoc(IDNotFound))
    /\ callers[p].ret.err.nil

\* C5: a Get answered with ok:false and an err text other than exactly
\* "id not found" returns a nil Response and a ServerError carrying that
\* text.
C5_GetOtherError ==
  \A p \in Callers :
    (/\ callers[p].pc = "returned" /\ callers[p].call.op = "Get"
     /\ callers[p].nreplies = 1 /\ Decodes(callers[p].reply)
     /\ ~Decoded(callers[p].reply).Ok
     /\ Decoded(callers[p].reply).Err # "id not found") =>
      /\ callers[p].ret.resp.nil
      /\ IsServerError(callers[p].ret.err)
      /\ callers[p].ret.err.text = "received error: " \o Decoded(callers[p].reply).Err

\* A Get returned after the reply ok:false, bad request.
C5_Witness ==
  \E p \in Callers :
    /\ callers[p].pc = "returned" /\ callers[p].call.op = "Get"
    /\ callers[p].reply = RespString(OkFalseDoc("bad request"))
    /\ callers[p].ret.err.text = "received error: bad request"

\* C6: Set, Scan, Search, Del, PDel, Expire, Persist and TTL answered with
\* {"ok":false,"err":"id not found"} return a ServerError, Scan and Search
\* with a nil Response and TTL with the value 0.
C6_NotFoundOnlyForGet ==
  \A p \in Callers :
    (/\ callers[p].pc = "returned"
     /\ callers[p].call.op \in {"Set", "Scan", "Search", "Del", "PDel",
                                 "Expire", "Persist", "TTL"}
     /\ callers[p].reply = RespString(OkFalseDoc(IDNotFound))) =>
      /\ IsServerError(callers[p].ret.err)
      /\ callers[p].ret.err.text = "received error: id not found"
      /\ callers[p].ret.resp.nil
      /\ callers[p].ret.ttl = 0

\* A Scan returned after the reply id not found.
C6_Witness ==
  \E p \in Callers :
    /\ callers[p].pc = "returned" /\ callers[p].call.op = "Scan"
    /\ callers[p].reply = RespString(OkFalseDoc(IDNotFound))
    /\ ~callers[p].ret.err.nil

\* C7: every operation called on a Database whose pool is nil returns the
\* Uninitialized error with a nil Response and a zero TTL, and makes no
\* transport call: it never enters pool.Do, holds no connection and writes
\* no frame.
C7_Uninitialized ==
  \A p \in Callers :
    (callers[p].call.op # "none" /\ callers[p].db = "nil") =>
      /\ callers[p].pc = "returned"
      /\ callers[p].ret = Ret(NilResp, errUninitialized, 0)
      /\ callers[p].ret.err.text = "database not initialized"
      /\ ~callers[p].ran /\ callers[p].held = 0
      /\ callers[p].frames = <<>> /\ callers[p].nreplies = 0

\* A second call was made on the unconnected Database.
C7_Witness ==
  \E p \in Callers :
    /\ ncalls = 2 /\ callers[p].db = "nil"
    /\ callers[p].call.op = "TTL" /\ callers[p].pc = "returned"

\* C8: Set called on a connected Database with no arguments after key and
\* id fails with InvalidArguments and a nil Response, without borrowing a
\* connection and without writing a request frame.
C8_NoArguments ==
  \A p \in Callers :
    (/\ callers[p].call.op = "Set" /\ callers[p].db # "nil"
     /\ Len(callers[p].call.args.elems) = 0) =>
      /\ callers[p].pc = "returned"
      /\ callers[p].ret = Ret(NilResp, errArgs, 0)
      /\ callers[p].held = 0 /\ callers[p].frames = <<>>

\* C9: a call on a connected Database that passes the argument checks
\* writes exactly one request frame, the command name followed by its
\* arguments in the order given, and reads exactly one reply; the request
\* is never written again, whatever the outcome.
C9_OneFrameOneReply ==
  \A p \in Callers :
    LET cl == callers[p]
    IN /\ Len(cl.frames) <= 1 /\ cl.nreplies <= Len(cl.frames)
       /\ cl.frames # <<>> => cl.frames = <<ExpectedFrame(cl.call)>>
       /\ cl.pc = "await" => Len(cl.frames) = 1 /\ cl.nreplies = 0
       /\ (cl.pc = "returned" /\ cl.reply # NoReply) =>
            Len(cl.frames) = 1 /\ cl.nreplies = 1

\* An Expire returned after one frame and one reply that failed to decode.
C9_Witness ==
  \E p \in Callers :
    /\ callers[p].pc = "returned" /\ callers[p].call.op = "Expire"
    /\ callers[p].reply = RespString(InvalidDoc)
    /\ callers[p].frames = << <<"EXPIRE", "test", "obj1", "60">> >>

\* C10: once runcmd has returned, with whatever outcome, the call holds no
\* connection; when no call is in flight no connection is checked out.
C10_Released ==
  /\ \A p \in Callers : callers[p].pc \in {"idle", "returned"} => callers[p].held = 0
  /\ \A c \in Conns :
       conns[c].state = "busy" =>
         \E p \in Callers : callers[p].pc = "await" /\ callers[p].held = c

\* A call returned with a server-level error and its connection is idle.
C10_Witness ==
  \E p \in Callers, c \in Conns :
    /\ callers[p].pc = "returned" /\ callers[p].reply = RespError(TestServerError)
    /\ callers[p].held = 0
    /\ conns[c].state = "idle" /\ conns[c].nrecv = 2

\* C11 (under the pool contract of Available and Put, which is radix's and
\* not this repository's): with several commands in progress at once, no connection is checked
\* out by two of them at the same time, a command that has written its
\* request holds a checked-out connection, and on every connection the
\* frames written are at most one ahead of the replies read: no request is
\* written while the reply to the previous one is still outstanding.
C11_ExclusiveAlternating ==
  /\ \A p, q \in DOMAIN callers :
       (p # q /\ callers[p].held # 0) => callers[q].held # callers[p].held
  /\ \A p \in DOMAIN callers :
       callers[p].pc = "await" =>
         /\ callers[p].held \in Conns
         /\ conns[callers[p].held].state = "busy"
  /\ \A c \in Conns :
       /\ conns[c].nsent - conns[c].nrecv \in {0, 1}
       /\ conns[c].state = "idle" => conns[c].nsent = conns[c].nrecv

\* One command waits for its reply on the only pooled connection while a
\* second command is inside pool.Do and can get no connection.
C11_Witness ==
  \E p, q \in DOMAIN callers :
    /\ p # q
    /\ callers[p].pc = "await"
    /\ callers[q].pc = "acquire"
    /\ pool = "open"
    /\ \A c \in Conns : ~Available(c)

\* The error kinds of the decoder, told apart by their text.
InvalidInput == "error unmarshaling response: not valid JSON"

UnknownField == "error unmarshaling response: unknown response value"

UnknownFieldType == "error unmarshaling response: unknown field type"

\* The last UnmarshalText call was made on a Response fresh from new.
FreshDecode == dec.pc = "decoded" /\ dec.n = 1

\* C12: UnmarshalText on bytes that are not valid JSON returns the
\* InvalidInput error and leaves every field of the Response as it was
\* before the call, whether the Response was fresh or already decoded into.
C12_InvalidKeepsResponse ==
  (dec.pc = "decoded" /\ ~dec.b.valid) =>
    /\ ~dec.err.nil
    /\ dec.err.text = InvalidInput
    /\ dec.r = dec.prev

\* {invalid} was handed to a Response that an earlier reply had filled.
C12_Witness ==
  /\ dec.pc = "decoded"
  /\ dec.b = InvalidDoc
  /\ dec.n = 2
  /\ dec.prev.Ok
  /\ dec.prev.Object # ""
  /\ dec.r = dec.prev

\* The keys parse has a case for.
KnownKeys ==
  {"ok", "id", "object", "ids", "objects", "fields", "count", "cursor", "ttl",
   "err", "elapsed", "live", "command", "group", "detect", "key", "time"}

\* The top-level members of the last input, when it is a JSON object.
TopItems == IF dec.b.valid /\ IsObject(dec.b.root) THEN dec.b.root.items ELSE << >>

UnknownKeyAt(i) == TopItems[i].k \notin KnownKeys

BadFieldsAt(i) ==
  /\ TopItems[i].k = "fields"
  /\ ~IsArray(TopItems[i].v)
  /\ ~IsObject(TopItems[i].v)

HasUnknownKey == \E i \in DOMAIN TopItems : UnknownKeyAt(i)

HasBadFields == \E i \in DOMAIN TopItems : BadFieldsAt(i)

\* The first member, in document order, that makes parse panic.
FirstOffending ==
  CHOOSE i \in DOMAIN TopItems :
    /\ UnknownKeyAt(i) \/ BadFieldsAt(i)
    /\ \A j \in 1..(i - 1) : ~(UnknownKeyAt(j) \/ BadFieldsAt(j))

\* C13 as stated: a JSON object with a top-level key outside the known set
\* fails with the UnknownField error, whatever other keys it has.
C13_UnknownKeyFails ==
  (dec.pc = "decoded" /\ HasUnknownKey) =>
    /\ ~dec.err.nil
    /\ dec.err.text = UnknownField

\* C13, amended: a JSON object with a top-level key outside the known set
\* never decodes successfully; the error is UnknownField, unless a fields
\* member that is neither array nor object comes before the first unknown
\* key, in which case it is UnknownFieldType.
C13_UnknownKeyNeverDecodes ==
  (dec.pc = "decoded" /\ HasUnknownKey) =>
    /\ ~dec.err.nil
    /\ dec.err.text = IF UnknownKeyAt(FirstOffending) THEN UnknownField
                      ELSE UnknownFieldType

\* {"ok":true,"zzz":true} was decoded and failed with UnknownField.
C13_Witness ==
  /\ dec.pc = "decoded"
  /\ Len(TopItems) = 2
  /\ TopItems[1].k = "ok"
  /\ UnknownKeyAt(2)
  /\ dec.err.text = UnknownField

\* C14 as stated: a reply whose fields value is neither an array nor an
\* object fails with the UnknownFieldType error.
C14_BadFieldsFails ==
  (dec.pc = "decoded" /\ HasBadFields) =>
    /\ ~dec.err.nil
    /\ dec.err.text = UnknownFieldType

\* C14, amended: a reply whose fields value is neither an array nor an
\* object never decodes successfully; the error is UnknownFieldType, unless
\* an unknown key comes before the first such fields member, in which case
\* it is UnknownField.
C14_BadFieldsNeverDecodes ==
  (dec.pc = "decoded" /\ HasBadFields) =>
    /\ ~dec.err.nil
    /\ dec.err.text = IF BadFieldsAt(FirstOffending) THEN UnknownFieldType
                      ELSE UnknownField

\* A reply whose only member is fields with a string, a number, a boolean
\* or null was decoded and failed with UnknownFieldType: all four happen.
C14_Witness ==
  /\ dec.pc = "decoded"
  /\ Len(TopItems) = 1
  /\ BadFieldsAt(1)
  /\ TopItems[1].v.type = "Null"
  /\ dec.err.text = UnknownFieldType

\* The positions of the top-level members with key k, and the last of them.
KeyPositions(k) == {i \in DOMAIN TopItems : TopItems[i].k = k}

LastValue(k) ==
  TopItems[CHOOSE i \in KeyPositions(k) : \A j \in KeyPositions(k) : j <= i].v

\* C15: after a successful decode of a reply with an object member, Object
\* is the raw JSON text of the value when the value is a JSON object, an
\* array, a number or a boolean, and the unquoted content when it is a
\* JSON string.
C15_ObjectRawOrString ==
  (dec.pc = "decoded" /\ dec.err.nil /\ KeyPositions("object") # {}) =>
    LET v == LastValue("object")
    IN /\ v.type = "String" => dec.r.Object = v.str
       /\ v.type \in {"JSON", "Number", "True", "False"} => dec.r.Object = v.raw

\* The children of v are pairwise different names: strings for a list,
\* keys (paired with numbers) for an object.
DistinctNames(v) ==
  /\ IsArray(v) => \A i \in DOMAIN v.items : v.items[i].v.type = "String"
  /\ IsObject(v) => \A i \in DOMAIN v.items : v.items[i].v.type = "Number"
  /\ \A i, j \in DOMAIN v.items :
       i # j => IF IsArray(v) THEN v.items[i].v.str # v.items[j].v.str
                ELSE v.items[i].k # v.items[j].k

\* The last decode was a successful one into a fresh Response, of a reply
\* with exactly one member of key k.
FreshSingle(k) ==
  /\ FreshDecode
  /\ dec.err.nil
  /\ Cardinality(KeyPositions(k)) = 1

C18_DenseIndices ==
  (FreshDecode /\ dec.err.nil) =>
    LET names == DOMAIN dec.r.FieldNames
        n == Cardinality(names)
    IN /\ \A x, y \in names :
            x # y => dec.r.FieldNames[x] # dec.r.FieldNames[y]
       /\ {dec.r.FieldNames[x] : x \in names} = 0..(n - 1)
       /\ Len(dec.r.FieldValues) =
            IF KeyPositions("fields") # {} /\ IsObject(LastValue("fields"))
              THEN n ELSE 0

\* C19: after decoding into a fresh Response a reply whose ids value is a
\* JSON array of N strings, IDs has exactly N entries and entry i is the
\* content of element i; likewise, for an objects value that is a JSON
\* array of N elements, Objects has N entries and entry i is the raw JSON
\* text of element i.
C19_IdsAndObjects ==
  /\ (FreshSingle("ids") /\ IsArray(LastValue("ids"))) =>
       LET elems == LastValue("ids").items
       IN /\ Len(dec.r.IDs) = Len(elems)
          /\ \A i \in DOMAIN elems :
               elems[i].v.type = "String" => dec.r.IDs[i] = elems[i].v.str
  /\ (FreshSingle("objects") /\ IsArray(LastValue("objects"))) =>
       LET elems == LastValue("objects").items
       IN /\ Len(dec.r.Objects) = Len(elems)
          /\ \A i \in DOMAIN elems : dec.r.Objects[i] = elems[i].v.raw

\* A reply with two ids and two objects was decoded into a fresh Response.
C19_Witness ==
  /\ FreshSingle("ids")
  /\ FreshSingle("objects")
  /\ dec.r.IDs = << "value1", "value2" >>
  /\ Len(dec.r.Objects) = 2
  /\ dec.r.Objects[2] = ObjectsElem("value2").raw

\* C20: a TTL call returns the ttl of the decoded reply and a nil error
\* when the reply decoded with Ok true, and 0 together with the error on
\* every failure: an uninitialized Database, a closed pool, a server-level
\* or transport error, an ok:false reply, a reply that does not decode.
\* It never returns a TTL other than 0 together with an error.
C20_TTLResult ==
  \A p \in DOMAIN callers :
    (callers[p].pc = "returned" /\ callers[p].call.op = "TTL") =>
      LET cl == callers[p]
          good == cl.nreplies = 1 /\ GoodReply(cl.reply)
      IN /\ good => /\ cl.ret.err.nil
                    /\ cl.ret.ttl = Decoded(cl.reply).TTL
         /\ ~good => /\ ~cl.ret.err.nil
                     /\ cl.ret.ttl = 0
         /\ cl.db = "nil" => cl.ret.err = errUninitialized
         /\ ~(cl.ret.ttl # 0 /\ ~cl.ret.err.nil)
         /\ cl.ret.resp.nil

\* A TTL call answered with the ok:true reply returned 5.67 and no error.
C20_Witness ==
  \E p \in DOMAIN callers :
    /\ callers[p].pc = "returned"
    /\ callers[p].call.op = "TTL"
    /\ callers[p].reply = RespString(OkTrueDoc)
    /\ callers[p].ret.err.nil
    /\ callers[p].ret.ttl = TestTTL.num

\* The keys of a push event.
EventKeys ==
  {"command", "group", "detect", "key", "time", "id", "object", "fields"}

\* The last input is the acknowledgement of a live feed.
IsAck ==
  /\ Len(TopItems) = 2
  /\ TopItems[1] = Member("ok", JTrue)
  /\ TopItems[2] = Member("live", JTrue)

\* The last input is a push event: its keys are event keys, it names its
\* command and its fields value, if any, is a list or an object.
IsPushEvent ==
  /\ TopItems # << >>
  /\ \A i \in DOMAIN TopItems : TopItems[i].k \in EventKeys
  /\ ~HasBadFields
  /\ KeyPositions("command") # {}
  /\ LastValue("command").type = "String"
  /\ LastValue("command").str # ""

Offends == HasUnknownKey \/ HasBadFields

\* The Response the members before the first offending one leave behind,
\* starting from the receiver as it was before the call.
BeforeOffending ==
  ParseAll(dec.prev, SubSeq(TopItems, 1, FirstOffending - 1)).r

\* The exported fields of a Response.
Exported == DOMAIN ZeroResponse \ {"fields"}

\* C22 as stated: when decode fails on an offending key, every field that
\* the members before it assigned is still set to that value on the
\* Response, and the call returns the error.
C22_PrecedingRemain ==
  (dec.pc = "decoded" /\ Offends) =>
    /\ ~dec.err.nil
    /\ \A f \in Exported :
         BeforeOffending[f] # dec.prev[f] => dec.r[f] = BeforeOffending[f]

\* C22, amended: when decode fails on an offending key, the call returns
\* the error and the Response is exactly what the members before the
\* offending one made of it, no member after it having been processed,
\* except that a fields value that is neither array nor object has emptied
\* FieldNames before failing.
C22_PartialState ==
  (dec.pc = "decoded" /\ Offends) =>
    /\ ~dec.err.nil
    /\ dec.r = IF BadFieldsAt(FirstOffending)
                 THEN [BeforeOffending EXCEPT !.FieldNames = << >>]
                 ELSE BeforeOffending

\* {"id":"value3","zzz":true,"object":{...}} failed with ID set and Object
\* not.
C22_Witness ==
  /\ FreshDecode
  /\ dec.b \in PartialDocs
  /\ UnknownKeyAt(2)
  /\ ~dec.err.nil
  /\ dec.r.ID = "value3"
  /\ dec.r.Object = ""

\* The members of a reply with those at positions i and j exchanged; every
\* permutation is a sequence of such exchanges.
Exchange(items, i, j) ==
  [n \in DOMAIN items |->
     IF n = i THEN items[j] ELSE IF n = j THEN items[i] ELSE items[n]]

\* What a caller sees of a decode into a fresh Response: the error kind,
\* or the exported fields of the populated Response.
Outcome(res) ==
  IF res.err.nil THEN [err |-> "", r |-> [f \in Exported |-> res.r[f]]]
  ELSE [err |-> res.err.text, r |-> [f \in Exported |-> ZeroResponse[f]]]

OutcomeOf(items) == Outcome(UnmarshalText(ZeroResponse, ValidJSON(JObject(items))))

DistinctKeys ==
  \A i, j \in DOMAIN TopItems : i # j => TopItems[i].k # TopItems[j].k

\* C23 as stated: exchanging any two top-level pairs of any reply leaves
\* the outcome of a decode into a fresh Response the same.
C23_OrderFree ==
  (FreshDecode /\ TopItems # << >>) =>
    \A i, j \in DOMAIN TopItems :
      OutcomeOf(Exchange(TopItems, i, j)) = Outcome([r |-> dec.r, err |-> dec.err])

\* C23, amended: for a reply whose top-level keys are pairwise different
\* and that does not have both an unrecognized key and a fields value that
\* is neither array nor object, exchanging any two top-level pairs leaves
\* the outcome of a decode into a fresh Response the same.
C23_OrderFreeDistinct ==
  (FreshDecode /\ TopItems # << >> /\ DistinctKeys
               /\ ~(HasUnknownKey /\ HasBadFields)) =>
    \A i, j \in DOMAIN TopItems :
      OutcomeOf(Exchange(TopItems, i, j)) = Outcome([r |-> dec.r, err |-> dec.err])

\* {"ids":[...],"ok":true} was decoded: Ok and IDs are set as they are for
\* {"ok":true,"ids":[...]}.
C23_Witness ==
  /\ FreshDecode
  /\ Len(TopItems) = 2
  /\ TopItems[1].k = "ids"
  /\ TopItems[2].k = "ok"
  /\ dec.err.nil
  /\ dec.r.Ok
  /\ dec.r.IDs = << "value1", "value2" >>

\* The members of the last input other than those of key k.
WithoutKey(k) == SelectSeq(TopItems, LAMBDA m : m.k # k)

\* time.Parse refuses the value: it is no string, or no RFC 3339 text.
Unparseable(v) == v.type # "String" \/ v.str \notin RFC3339Times

\* C24: when the time value of a reply is not an RFC 3339 timestamp and
\* nothing else is wrong with the reply, decode returns no error, Time is
\* the zero timestamp and every other field is what the reply without its
\* time member decodes to.
C24_TimeFallback ==
  (dec.pc = "decoded" /\ ~Offends /\ KeyPositions("time") # {}
                      /\ Unparseable(LastValue("time"))) =>
    /\ dec.err.nil
    /\ dec.r.Time = ZeroTime
    /\ dec.r = [ParseAll(dec.prev, WithoutKey("time")).r EXCEPT !.Time = ZeroTime]

\* The del event with the time "yesterday" was decoded: command and id are
\* set, Time is zero.
C24_Witness ==
  /\ FreshDecode
  /\ dec.b = FenceDel(JString("yesterday"))
  /\ dec.err.nil
  /\ dec.r.Command = "del"
  /\ dec.r.ID = "value3"
  /\ dec.r.Time = ZeroTime

\* C30: a reply that has both an unrecognized top-level key and a fields
\* value that is neither array nor object fails with one error, that of
\* whichever comes first in document order: UnknownField when the first
\* unrecognized key precedes the first such fields member, UnknownFieldType
\* when the fields member precedes.
C30_FirstOffendingDecides ==
  (dec.pc = "decoded" /\ HasUnknownKey /\ HasBadFields) =>
    LET firstUnknown == CHOOSE i \in DOMAIN TopItems :
                          UnknownKeyAt(i) /\ \A j \in 1..(i - 1) : ~UnknownKeyAt(j)
        firstBad == CHOOSE i \in DOMAIN TopItems :
                      BadFieldsAt(i) /\ \A j \in 1..(i - 1) : ~BadFieldsAt(j)
    IN /\ ~dec.err.nil
       /\ firstUnknown < firstBad => dec.err.text = UnknownField
       /\ firstBad < firstUnknown => dec.err.text = UnknownFieldType

\* {"fields":true,"zzz":true} failed with UnknownFieldType.
C30_Witness ==
  /\ dec.pc = "decoded"
  /\ Len(TopItems) = 2
  /\ BadFieldsAt(1)
  /\ UnknownKeyAt(2)
  /\ dec.err.text = UnknownFieldType

\* C29: a Get returns a nil Response together with a nil error only when
\* it read one reply that decoded without error, with Ok false and Err
\* exactly "id not found"; after a transport failure, a server-level error
\* (whatever its text), a reply that does not decode, or without a reply,
\* it returns an error or a Response.
C29_GetNilNilOnlyNotFound ==
  \A p \in DOMAIN callers :
    (callers[p].pc = "returned" /\ callers[p].call.op = "Get") =>
      LET cl == callers[p]
      IN /\ (cl.ret.resp.nil /\ cl.ret.err.nil) =>
              /\ cl.nreplies = 1
              /\ cl.reply.kind = "string"
              /\ Decodes(cl.reply)
              /\ ~Decoded(cl.reply).Ok
              /\ Decoded(cl.reply).Err = IDNotFound
         /\ (cl.nreplies = 0 \/ cl.reply.kind \in {"error", "ioerr"}
                              \/ ~Decodes(cl.reply)) =>
              ~cl.ret.err.nil

\* A Get answered with the server-level error id not found returned that
\* error, wrapped, and not the no-value outcome.
C29_Witness ==
  \E p \in DOMAIN callers :
    /\ callers[p].pc = "returned"
    /\ callers[p].call.op = "Get"
    /\ callers[p].reply = RespError(IDNotFound)
    /\ callers[p].ret.resp.nil
    /\ callers[p].ret.err.text = "database error: id not found"

\* C26: OUTPUT json is written exactly once on every connection, as its
\* first frame, and never by a command: every frame a call writes is its
\* own request, the frame a checked-out connection carries is not the
\* handshake, and a connection has seen one handshake frame however many
\* commands were answered on it, with whatever outcome.
C26_HandshakeOnce ==
  /\ \A c \in Conns :
       /\ conns[c].nhandshake = IF conns[c].nsent > 0 THEN 1 ELSE 0
       /\ conns[c].nhandshake <= 1
       /\ conns[c].nsent <= 1 + ncalls
       /\ conns[c].state = "busy" => conns[c].pending # HandshakeFrame
  /\ \A p \in DOMAIN callers :
       \A i \in DOMAIN callers[p].frames :
         /\ callers[p].frames[i] # HandshakeFrame
         /\ callers[p].frames[i][1] # "OUTPUT"

\* With one pooled connection, two commands were answered on it, the
\* second with a server-level error or ok:false: three frames went out and
\* one of them was OUTPUT json.
C26_Witness ==
  \E c \in Conns, p \in DOMAIN callers :
    /\ Cardinality(Live) = 1
    /\ conns[c].creator = "connect"
    /\ conns[c].nsent = 3
    /\ conns[c].nrecv = 3
    /\ conns[c].nhandshake = 1
    /\ ncalls = 2
    /\ callers[p].pc = "returned"
    /\ callers[p].reply \in {RespError(TestServerError), RespString(OkFalseDoc(TestOkFalse))}

\* The top-level members of a reply body that is a JSON object.
MembersOf(b) == IF b.valid /\ IsObject(b.root) THEN b.root.items ELSE << >>

KeyAt(b, k) == {i \in DOMAIN MembersOf(b) : MembersOf(b)[i].k = k}

\* The value of the last member of key k; JNull when there is none.
LastOf(b, k) ==
  IF KeyAt(b, k) = {} THEN JNull
  ELSE MembersOf(b)[CHOOSE i \in KeyAt(b, k) : \A j \in KeyAt(b, k) : j <= i].v

\* C28: whether a decoded reply counts as a success depends on its ok
\* value alone.  A reply whose ok is true is returned as a Response, with
\* Err set to the err text of the reply if it has one; a reply whose ok is
\* false, or that has no ok key at all, is a ServerError whose message is
\* the err text of the reply, empty when the reply has none.
C28_OkAloneDecides ==
  \A p \in DOMAIN callers :
    (/\ callers[p].pc = "returned" /\ callers[p].ran
     /\ callers[p].nreplies = 1 /\ Decodes(callers[p].reply)) =>
      LET cl == callers[p]
          okTrue == LastOf(cl.reply.body, "ok").type = "True"
          errText == LastOf(cl.reply.body, "err").str
      IN /\ okTrue =>
              /\ cl.rc.err.nil
              /\ ~cl.rc.resp.nil
              /\ cl.rc.resp.val.Err = errText
         /\ ~okTrue =>
              /\ cl.rc.resp.nil
              /\ IsServerError(cl.rc.err)
              /\ cl.rc.err.text = "received error: " \o errText

\* A command answered with {} returned a ServerError with an empty
\* message.
C28_Witness ==
  \E p \in DOMAIN callers :
    /\ callers[p].pc = "returned"
    /\ callers[p].reply = RespString(EmptyDoc)
    /\ callers[p].rc.resp.nil
    /\ callers[p].rc.err.text = "received error: "

\* The key parse assigns each exported field from.
KeyOf ==
  [ID |-> "id", Object |-> "object", IDs |-> "ids", Objects |-> "objects",
   FieldNames |-> "fields", FieldValues |-> "fields", Count |-> "count",
   Cursor |-> "cursor", TTL |-> "ttl", Err |-> "err", Elapsed |-> "elapsed",
   Ok |-> "ok", Live |-> "live", Command |-> "command", Group |-> "group",
   Detect |-> "detect", Key |-> "key", Time |-> "time"]

\* The number of children of the members of key k of a reply body.
RECURSIVE Children(_, _)
Children(ms, k) ==
  IF ms = << >> THEN 0
  ELSE (IF Head(ms).k = k THEN Len(ForEach(Head(ms).v)) ELSE 0)
       + Children(Tail(ms), k)

\* C25: the Response a command returns holds nothing but what its own
\* reply put there, whatever was decoded before on the same Database (the
\* handshake reply, earlier replies, replies that failed): a field whose
\* key the reply does not have is zero, IDs and Objects have as many
\* entries as the reply's own ids and objects, and the field-index counter
\* counts the reply's own field names.
C25_OwnReplyOnly ==
  \A p \in DOMAIN callers :
    (callers[p].pc = "returned" /\ ~callers[p].rc.resp.nil) =>
      LET r == callers[p].rc.resp.val
          b == callers[p].reply.body
      IN /\ callers[p].nreplies = 1
         /\ \A f \in Exported :
              KeyAt(b, KeyOf[f]) = {} => r[f] = ZeroResponse[f]
         /\ Len(r.IDs) = Children(MembersOf(b), "ids")
         /\ Len(r.Objects) = Children(MembersOf(b), "objects")
         /\ r.fields = Children(MembersOf(b), "fields")
         /\ \A x \in DOMAIN r.FieldNames : r.FieldNames[x] < r.fields

\* On a connection whose handshake was answered with the ok:true reply
\* that carries an object and a ttl, the second command was answered with
\* {"ok":true,"err":"bad request"}: its Response has the Err and neither
\* Object nor TTL.
C25_Witness ==
  \E p \in DOMAIN callers, c \in Conns :
    /\ callers[p].pc = "returned"
    /\ ncalls = 2
    /\ connect.reply = RespString(OkTrueDoc)
    /\ conns[c].nrecv = 3
    /\ callers[p].reply = RespString(OkErrDoc)
    /\ ~callers[p].rc.resp.nil
    /\ callers[p].rc.resp.val.Err = "bad request"
    /\ callers[p].rc.resp.val.Object = ""
    /\ callers[p].rc.resp.val.TTL = 0

\* Every connection the model has was made and is closed: the open pool
\* holds none and can create none.
NoConnLeft ==
  /\ pool = "open"
  /\ Live = {}
  /\ Unborn = {}

====
